---- MODULE Spec2Model ----
(***************************************************************************)
(* Model of mcp_builder/server.py: the two installer tools                 *)
(* (install_repo_mcp_server, install_local_mcp_server), the shared         *)
(* install_to_claude_desktop upsert and the Claude Desktop config file.    *)
(*                                                                         *)
(* Python strings that the code takes apart (names, paths, KEY=VALUE       *)
(* pairs, file names) are sequences of one-character strings; strings the  *)
(* code only copies (commands, opaque config values) are TLA+ strings.     *)
(* Paths follow posixpath.                                                 *)
(***************************************************************************)
EXTENDS Integers, Sequences, FiniteSets, TLC

(* ------------------------------- bounds -------------------------------- *)
MaxNameLen == 3
MaxPathLen == 2

(* characters package names / directory paths are drawn from *)
NameChars == {"a", "@", "/", "."}
PathChars == {"a", "/", "-"}

SeqsUpTo(S, n) == UNION {[1..k -> S] : k \in 1..n}

RawNames == SeqsUpTo(NameChars, MaxNameLen)
RawPaths == SeqsUpTo(PathChars, MaxPathLen)

(* ------------------------- string primitives --------------------------- *)
StartsWith(s, c) == Len(s) > 0 /\ s[1] = c

Contains(s, c) == \E i \in 1..Len(s) : s[i] = c

IndexOf(s, c) ==
    IF Contains(s, c) THEN CHOOSE i \in 1..Len(s) : s[i] = c /\ \A j \in 1..(i-1) : s[j] # c
    ELSE 0

(* str.split(sep): the list of segments between occurrences of sep *)
RECURSIVE Split(_, _)
Split(s, c) ==
    LET i == IndexOf(s, c) IN
    IF i = 0 THEN <<s>>
    ELSE <<SubSeq(s, 1, i - 1)>> \o Split(SubSeq(s, i + 1, Len(s)), c)

LastOf(xs) == xs[Len(xs)]

HasPrefix(s, p) == Len(s) >= Len(p) /\ SubSeq(s, 1, Len(p)) = p

EndsWith(s, p) == Len(s) >= Len(p) /\ SubSeq(s, Len(s) - Len(p) + 1, Len(s)) = p

(* str.replace(pat, rep): every non-overlapping occurrence, left to right *)
RECURSIVE ReplaceAll(_, _, _)
ReplaceAll(s, pat, rep) ==
    IF Len(s) < Len(pat) \/ Len(s) = 0 THEN s
    ELSE IF HasPrefix(s, pat) THEN rep \o ReplaceAll(SubSeq(s, Len(pat) + 1, Len(s)), pat, rep)
    ELSE <<s[1]>> \o ReplaceAll(Tail(s), pat, rep)

(* posixpath.basename / posixpath.join *)
Basename(p) == LastOf(Split(p, "/"))

Join(a, b) ==
    IF StartsWith(b, "/") THEN b
    ELSE IF a = <<>> \/ a[Len(a)] = "/" THEN a \o b
    ELSE a \o <<"/">> \o b

(* ----------------------------- literals -------------------------------- *)
DashM == <<"-", "m">>
DotPy == <<".", "p", "y">>
IndexJs == <<"i", "n", "d", "e", "x", ".", "j", "s">>
SetupPy == <<"s", "e", "t", "u", "p", ".", "p", "y">>
PackageJson == <<"p", "a", "c", "k", "a", "g", "e", ".", "j", "s", "o", "n">>
PyprojectToml == <<"p", "y", "p", "r", "o", "j", "e", "c", "t", ".", "t", "o", "m", "l">>

(* the character class [a-zA-Z0-9_-] of the re.sub pattern *)
AllowedChars ==
    {"a","b","c","d","e","f","g","h","i","j","k","l","m",
     "n","o","p","q","r","s","t","u","v","w","x","y","z",
     "A","B","C","D","E","F","G","H","I","J","K","L","M",
     "N","O","P","Q","R","S","T","U","V","W","X","Y","Z",
     "0","1","2","3","4","5","6","7","8","9","_","-"}

(* --------------------------- config store ------------------------------ *)
(* The config file on disk.  kind: "absent" (no file), "invalid" (text     *)
(* that is not JSON), "undecodable" (bytes that are not UTF-8),            *)
(* "nonobject" (a JSON value that is not an object) or "object".  For an   *)
(* object, others holds the top-level members other than mcpServers,       *)
(* servers_kind says whether mcpServers is absent, an object or another    *)
(* JSON value, and servers holds the entries of mcpServers, one per name.  *)
FileOf(kind, others, servers_kind, servers) ==
    [kind |-> kind, others |-> others, servers_kind |-> servers_kind, servers |-> servers]

NoFile == FileOf("absent", {}, "absent", {})

(* config = {} *)
EmptyDocument == FileOf("object", {}, "absent", {})

(* read_config: {} when the file is missing or is not JSON; a file that is *)
(* not UTF-8 makes open().read() raise UnicodeDecodeError, which is not a  *)
(* JSONDecodeError                                                         *)
ReadConfig(file) ==
    IF file.kind \in {"absent", "invalid"} THEN [raised |-> FALSE, doc |-> EmptyDocument]
    ELSE IF file.kind = "undecodable" THEN [raised |-> TRUE, doc |-> EmptyDocument]
    ELSE [raised |-> FALSE, doc |-> file]

(* write_config: os.makedirs(config_dir, exist_ok=True), then json.dump *)
WriteConfig(dir, file, doc) == [raised |-> FALSE, dir |-> TRUE, file |-> doc]

(* ------------------------------ env pairs ------------------------------ *)
NoneList == [given |-> FALSE, list |-> <<>>]
ListOf(xs) == [given |-> TRUE, list |-> xs]

(* env_obj[key] = value *)
DictSet(pairs, k, v) == {p \in pairs : p.key # k} \cup {[key |-> k, value |-> v]}

(* the loop of parse_env_vars: split("=", 1) of every entry that has "=" *)
RECURSIVE EnvLoop(_, _)
EnvLoop(list, env_obj) ==
    IF list = <<>> THEN env_obj
    ELSE LET env_var == Head(list)
             i == IndexOf(env_var, "=")
         IN  IF i = 0 THEN EnvLoop(Tail(list), env_obj)
             ELSE EnvLoop(Tail(list),
                          DictSet(env_obj, SubSeq(env_var, 1, i - 1),
                                  SubSeq(env_var, i + 1, Len(env_var))))

(* parse_env_vars: None for no input and for an empty result *)
ParseEnvVars(env) ==
    IF ~env.given \/ env.list = <<>> THEN [none |-> TRUE, pairs |-> {}]
    ELSE LET env_obj == EnvLoop(env.list, {})
         IN  IF env_obj = {} THEN [none |-> TRUE, pairs |-> {}]
             ELSE [none |-> FALSE, pairs |-> env_obj]

(* ---------------------- install_to_claude_desktop ---------------------- *)
(* re.sub(r'[^a-zA-Z0-9_-]', '-', server_name) *)
ReSubKeepingDots(s) ==
    IF s = <<>> THEN <<>>
    ELSE [i \in 1..Len(s) |-> IF s[i] \in AllowedChars \cup {"."} THEN s[i] ELSE "-"]

ReSub(s) ==
    IF s = <<>> THEN <<>>
    ELSE [i \in 1..Len(s) |-> IF s[i] \in AllowedChars THEN s[i] ELSE "-"]

(* the normalisation of server_name at the head of the installer *)
NormalizeServerName(server_name) ==
    LET unscoped == IF StartsWith(server_name, "@") /\ Contains(server_name, "/")
                    THEN Split(server_name, "/")[2]
                    ELSE server_name
    IN  ReSub(unscoped)

(* server_config: command and args always; env when a non-empty list was   *)
(* given (its value is whatever parse_env_vars returns, None included);    *)
(* cwd when truthy                                                         *)
ServerConfig(command, args, env, cwd) ==
    [command |-> command,
     args |-> args,
     env |-> IF env.given /\ Len(env.list) > 0
             THEN LET parsed == ParseEnvVars(env)
                  IN  IF parsed.none THEN [kind |-> "null", pairs |-> {}]
                      ELSE [kind |-> "object", pairs |-> parsed.pairs]
             ELSE [kind |-> "absent", pairs |-> {}],
     cwd |-> IF cwd.given /\ cwd.list # <<>>
             THEN [present |-> TRUE, path |-> cwd.list]
             ELSE [present |-> FALSE, path |-> <<>>]]

EntryOf(name, server_config) ==
    [name |-> name, command |-> server_config.command, args |-> server_config.args,
     env |-> server_config.env, cwd |-> server_config.cwd]

(* config["mcpServers"][server_name] = server_config *)
SetServerDropSiblings(servers, name, server_config) == {EntryOf(name, server_config)}

SetServerMergeArgs(servers, name, server_config) ==
    {e \in servers : e.name # name} \cup
    {EntryOf(name, [server_config EXCEPT !.args = old.args \o @]) :
        old \in {e \in servers : e.name = name}} \cup
    (IF \E e \in servers : e.name = name THEN {} ELSE {EntryOf(name, server_config)})

SetServer(servers, name, server_config) ==
    {e \in servers : e.name # name} \cup {EntryOf(name, server_config)}

(* an exception leaves the file as it was: every raise happens before the  *)
(* file is opened for writing, or is that open failing                     *)
RaisedTruncating(dir, file) ==
    [raised |-> TRUE, key |-> <<>>,
     file |-> IF dir /\ file.kind # "absent" THEN FileOf("invalid", {}, "absent", {}) ELSE file]

Raised(dir, file) == [raised |-> TRUE, key |-> <<>>, file |-> file]

InstallToClaudeDesktop(dir, file, server_name, command, args, env, cwd) ==
    LET name == NormalizeServerName(server_name)
        (* open/json.load: FileNotFoundError and JSONDecodeError give {} *)
        config == IF file.kind \in {"absent", "invalid"} THEN EmptyDocument ELSE file
        servers == IF config.servers_kind = "absent" THEN {} ELSE config.servers
    IN  IF file.kind = "undecodable" THEN Raised(dir, file)          \* UnicodeDecodeError
        ELSE IF config.kind # "object" THEN Raised(dir, file)         \* TypeError
        ELSE IF config.servers_kind = "nonobject" THEN Raised(dir, file) \* TypeError
        ELSE IF ~dir THEN Raised(dir, file)                           \* FileNotFoundError
        ELSE [raised |-> FALSE, key |-> name,
              file |-> FileOf("object", config.others, "object",
                              SetServer(servers, name, ServerConfig(command, args, env, cwd)))]

(* --------------------------- status messages --------------------------- *)
(* A returned message: its kind, the runtime it names and the text it puts *)
(* between quotes.  kind "raised" stands for an exception that escapes the *)
(* tool instead of a returned string.                                      *)
Message(kind, via, quoted) == [kind |-> kind, via |-> via, quoted |-> quoted]

(* what one tool call did: the returned message, the file it left, the     *)
(* number of completed install_to_claude_desktop calls and the key written *)
Outcome(ret, file, upserts, key) == [ret |-> ret, file |-> file, upserts |-> upserts, key |-> key]

NoCwd == NoneList

(* --------------------- install_repo_mcp_server ------------------------- *)
(* server_name of the npx rule: "package" of "@scope/package" *)
NpxRuleServerName(name) ==
    IF StartsWith(name, "@") /\ Contains(name, "/") THEN Split(name, "/")[2] ELSE name

(* server_name of the Python rule: the package name itself *)
PythonRuleServerNameLastSegment(name) == LastOf(Split(name, "."))

PythonRuleServerName(name) == name

(* server_name of the npx fallback: the part after the last "/" *)
FallbackNpxServerName(name) ==
    IF Contains(name, "/") THEN LastOf(Split(name, "/")) ELSE name

(* server_name of the Python fallback: the part after the last "." *)
FallbackPythonServerName(name) ==
    IF Contains(name, ".") THEN LastOf(Split(name, ".")) ELSE name

(* one install_to_claude_desktop call followed by the success message; an  *)
(* exception of the installer escapes the tool                             *)
InstallAndReport(dir, file, server_name, command, args, env, cwd, via) ==
    LET r == InstallToClaudeDesktop(dir, file, server_name, command, args, env, cwd)
    IN  IF r.raised THEN Outcome(Message("raised", "none", <<>>), r.file, 0, <<>>)
        ELSE Outcome(Message("success", via, server_name), r.file, 1, r.key)

InstallRepoOutcome(t, dir, file, name, args_in, env) ==
    LET args == IF args_in.given THEN args_in.list ELSE <<>>
        is_likely_npm_package == StartsWith(name, "@") \/ ~Contains(name, ".")
    IN  IF ~t.node /\ ~t.python
        THEN Outcome(Message("neither", "none", <<>>), file, 0, <<>>)
        ELSE IF t.npm /\ t.npx /\ is_likely_npm_package
        THEN InstallAndReport(dir, file, NpxRuleServerName(name), "npx",
                              <<name>> \o args, env, NoCwd, "npx")
        ELSE IF t.pip /\ t.python /\ Contains(name, ".")
        THEN InstallAndReport(dir, file, PythonRuleServerName(name), "python",
                              <<DashM, name>> \o args, env, NoCwd, "Python")
        ELSE IF t.npm /\ t.npx
        THEN InstallAndReport(dir, file, FallbackNpxServerName(name), "npx",
                              <<name>> \o args, env, NoCwd, "npx")
        ELSE IF t.pip /\ t.python
        THEN InstallAndReport(dir, file, FallbackPythonServerName(name), "python",
                              <<DashM, name>> \o args, env, NoCwd, "Python")
        ELSE Outcome(Message("undetermined", "none", name), file, 0, <<>>)

(* --------------------- install_local_mcp_server ------------------------ *)
(* What the file system shows at a path: whether it exists, the names in   *)
(* the directory (os.listdir order), whether the candidate module          *)
(* directory exists, and package.json: "invalid" (not JSON), "nonobject"   *)
(* (JSON, not an object) or "object" with an optional "main" member that   *)
(* is a string or another JSON value.                                      *)
Manifest(kind, has_main, main_is_string, main) ==
    [kind |-> kind, has_main |-> has_main, main_is_string |-> main_is_string, main |-> main]

NoManifest == Manifest("invalid", FALSE, FALSE, <<>>)

Project(exists, listing, has_module_dir, manifest) ==
    [exists |-> exists, listing |-> listing, has_module_dir |-> has_module_dir,
     manifest |-> manifest]

InListing(p, file_name) == \E i \in 1..Len(p.listing) : p.listing[i] = file_name

(* [f for f in os.listdir(path) if f.endswith(".py") and f != "setup.py"] *)
PyFiles(p) == SelectSeq(p.listing, LAMBDA f : EndsWith(f, DotPy) /\ f # SetupPy)

(* os.path.isdir(os.path.join(path, module_name)); joining "" gives the    *)
(* project directory itself                                                *)
IsModuleDir(p, module_name) ==
    IF module_name = <<>> THEN TRUE ELSE p.has_module_dir

(* the Node.js branch: everything from reading package.json to the install *)
(* is inside try/except Exception, which turns any failure into a message  *)
NodeError(file) == Outcome(Message("node_error", "Node.js", <<>>), file, 0, <<>>)

NodeBranch(dir, file, path, p, server_name, args, env) ==
    LET m == p.manifest
        main_file == IF m.has_main THEN m.main ELSE IndexJs
        r == InstallToClaudeDesktop(dir, file, server_name, "node",
                                    <<Join(path, main_file)>> \o args, env, NoCwd)
    IN  IF m.kind # "object" THEN NodeError(file)                \* JSONDecodeError, AttributeError
        ELSE IF m.has_main /\ ~m.main_is_string THEN NodeError(file)  \* TypeError in os.path.join
        ELSE IF r.raised THEN NodeError(r.file)
        ELSE Outcome(Message("success", "Node.js", server_name), r.file, 1, r.key)

PythonBranch(dir, file, path, p, server_name, args, env) ==
    LET module_name == ReplaceAll(server_name, <<"-">>, <<"_">>)
        py_files == PyFiles(p)
        main_file == ReplaceAll(py_files[1], DotPy, <<>>)
    IN  IF IsModuleDir(p, module_name)
        THEN InstallAndReport(dir, file, server_name, "python",
                              <<DashM, module_name>> \o args, env, ListOf(path), "Python")
        ELSE IF py_files # <<>>
        THEN InstallAndReport(dir, file, server_name, "python",
                              <<Join(path, main_file \o DotPy)>> \o args, env, NoCwd, "Python")
        ELSE Outcome(Message("undetermined", "none", path), file, 0, <<>>)

InstallLocalOutcome(t, dir, file, path, p, args_in, env) ==
    LET args == IF args_in.given THEN args_in.list ELSE <<>>
        has_package_json == InListing(p, PackageJson)
        has_pyproject_toml == InListing(p, PyprojectToml)
        has_setup_py == InListing(p, SetupPy)
        server_name == Basename(path)
    IN  IF ~p.exists
        THEN Outcome(Message("nopath", "none", path), file, 0, <<>>)
        ELSE IF has_package_json /\ t.node /\ t.npm
        THEN NodeBranch(dir, file, path, p, server_name, args, env)
        ELSE IF (has_pyproject_toml \/ has_setup_py) /\ t.python
        THEN PythonBranch(dir, file, path, p, server_name, args, env)
        ELSE Outcome(Message("undetermined", "none", path), file, 0, <<>>)

(* ------------------------------ inputs --------------------------------- *)
Tools == [node : BOOLEAN, npm : BOOLEAN, npx : BOOLEAN, pip : BOOLEAN, python : BOOLEAN]

ArgInputs == {NoneList, ListOf(<< <<"x">> >>)}

EnvInputs ==
    {NoneList,
     ListOf(<<>>),
     ListOf(<< <<"A", "=", "1">>, <<"B", "=", "2", "=", "x">> >>),
     ListOf(<< <<"F", "O", "O">> >>)}

MainJs == <<"m", ".", "j", "s">>
ServerPy == <<"s", ".", "p", "y">>

Projects ==
    {Project(FALSE, <<>>, FALSE, NoManifest),
     Project(TRUE, <<>>, FALSE, NoManifest),
     Project(TRUE, <<PackageJson>>, FALSE, Manifest("object", TRUE, TRUE, MainJs)),
     Project(TRUE, <<PackageJson>>, FALSE, Manifest("object", FALSE, FALSE, <<>>)),
     Project(TRUE, <<PackageJson>>, FALSE, Manifest("object", TRUE, FALSE, <<>>)),
     Project(TRUE, <<PackageJson>>, FALSE, Manifest("invalid", FALSE, FALSE, <<>>)),
     Project(TRUE, <<PackageJson, PyprojectToml>>, TRUE, Manifest("nonobject", FALSE, FALSE, <<>>)),
     Project(TRUE, <<PyprojectToml>>, TRUE, NoManifest),
     Project(TRUE, <<SetupPy, ServerPy>>, FALSE, NoManifest),
     Project(TRUE, <<SetupPy>>, FALSE, NoManifest)}

(* entries and members the host application already keeps in the file *)
ExistingServers ==
    {EntryOf(<<"a">>, ServerConfig("node", << <<"s">> >>, NoneList, NoCwd)),
     EntryOf(<<"b">>, ServerConfig("uvx", <<>>, NoneList, NoCwd))}

ExistingOthers == {[key |-> "theme", value |-> "dark"]}

InitialConfigs ==
    {[dir |-> FALSE, file |-> NoFile],
     [dir |-> TRUE, file |-> NoFile],
     [dir |-> TRUE, file |-> FileOf("invalid", {}, "absent", {})],
     [dir |-> TRUE, file |-> FileOf("undecodable", {}, "absent", {})],
     [dir |-> TRUE, file |-> FileOf("nonobject", {}, "absent", {})],
     [dir |-> TRUE, file |-> FileOf("object", ExistingOthers, "absent", {})],
     [dir |-> TRUE, file |-> FileOf("object", ExistingOthers, "nonobject", {})],
     [dir |-> TRUE, file |-> FileOf("object", ExistingOthers, "object", ExistingServers)]}

(* ------------------------------- state --------------------------------- *)
(* tools: which of node, npm, npx, pip, python shutil.which finds;        *)
(* config_dir: whether the directory of the config file exists;            *)
(* config_file: the config file; last: the last tool call, its inputs and  *)
(* what it did                                                             *)
VARIABLES tools, config_dir, config_file, last

vars == <<tools, config_dir, config_file, last>>

NoProject == Project(FALSE, <<>>, FALSE, NoManifest)

Call(op, target, project, args, env, o, repeated) ==
    [op |-> op, target |-> target, project |-> project, args |-> args, env |-> env,
     ret |-> o.ret, upserts |-> o.upserts, key |-> o.key, repeated |-> repeated]

NoCall ==
    Call("none", <<>>, NoProject, NoneList, NoneList,
         Outcome(Message("none", "none", <<>>), NoFile, 0, <<>>), FALSE)

Init ==
    /\ tools \in Tools
    /\ \E c \in InitialConfigs : config_dir = c.dir /\ config_file = c.file
    /\ last = NoCall

InstallRepoMcpServer(name, args, env) ==
    LET o == InstallRepoOutcome(tools, config_dir, config_file, name, args, env)
    IN  /\ config_file' = o.file
        /\ last' = Call("repo", name, NoProject, args, env, o, FALSE)
        /\ UNCHANGED <<tools, config_dir>>

InstallLocalMcpServer(path, p, args, env) ==
    LET o == InstallLocalOutcome(tools, config_dir, config_file, path, p, args, env)
    IN  /\ config_file' = o.file
        /\ last' = Call("local", path, p, args, env, o, FALSE)
        /\ UNCHANGED <<tools, config_dir>>

(* the client issues the last call once more with the same arguments *)
Repeat ==
    /\ last.op # "none"
    /\ ~last.repeated
    /\ LET o == IF last.op = "repo"
                THEN InstallRepoOutcome(tools, config_dir, config_file,
                                        last.target, last.args, last.env)
                ELSE InstallLocalOutcome(tools, config_dir, config_file,
                                         last.target, last.project, last.args, last.env)
       IN  /\ config_file' = o.file
           /\ last' = Call(last.op, last.target, last.project, last.args, last.env, o, TRUE)
    /\ UNCHANGED <<tools, config_dir>>

(* a run is one tool call, which the client may then issue once more *)
Next ==
    \/ /\ last.op = "none"
       /\ \E name \in RawNames, args \in ArgInputs, env \in EnvInputs :
             InstallRepoMcpServer(name, args, env)
    \/ /\ last.op = "none"
       /\ \E path \in RawPaths, p \in Projects, args \in ArgInputs, env \in EnvInputs :
             InstallLocalMcpServer(path, p, args, env)
    \/ Repeat

Spec == Init /\ [][Next]_vars

(* ----------------------------- properties ----------------------------- *)
Succeeded(call) == call.ret.kind = "success"

(* the call returned a message other than the success message *)
Refused(call) == call.ret.kind \in {"neither", "nopath", "node_error", "undetermined"}

EntriesNamed(file, name) == {e \in file.servers : e.name = name}

IsObjectDocument(file) == file.kind = "object" /\ file.servers_kind # "nonobject"

ExtraArgs(call) == IF call.args.given THEN call.args.list ELSE <<>>

(* install_repo_mcp_server reaches one of its four install rules *)
RepoResolves(t) == (t.node \/ t.python) /\ ((t.npm /\ t.npx) \/ (t.pip /\ t.python))

(* remote rule 4 is the rule that applies to the call *)
PythonRuleApplies(t, call) ==
    /\ call.op = "repo"
    /\ Contains(call.target, ".")
    /\ ~(t.npm /\ t.npx /\ (StartsWith(call.target, "@") \/ ~Contains(call.target, ".")))
    /\ t.pip /\ t.python

(* key is raw with every character outside [A-Za-z0-9_-] replaced by "-" *)
IsSanitizedFormOf(key, raw) ==
    /\ Len(key) = Len(raw)
    /\ \A i \in 1..Len(raw) : key[i] = (IF raw[i] \in AllowedChars THEN raw[i] ELSE "-")

(* C1: a successful install into a config that is a JSON object changes    *)
(* only the entry of mcpServers under the key it writes: every other entry *)
(* and every other top-level member is the same after the call as before.  *)
FrameOfInstall ==
    [][(IsObjectDocument(config_file) /\ Succeeded(last'))
        => /\ config_file'.kind = "object"
           /\ config_file'.others = config_file.others
           /\ \A e \in config_file.servers : e.name # last'.key => e \in config_file'.servers
           /\ \A e \in config_file'.servers : e.name # last'.key => e \in config_file.servers
           /\ Cardinality(EntriesNamed(config_file', last'.key)) = 1]_vars

FrameOfInstallWitness ==
    /\ Succeeded(last)
    /\ last.key = <<"a">>
    /\ config_file.others = ExistingOthers
    /\ \E e \in EntriesNamed(config_file, <<"a">>) : e.command = "npx"
    /\ \E e \in EntriesNamed(config_file, <<"b">>) : e \in ExistingServers

(* C2: a call that returns the success message made exactly one upsert,    *)
(* and a call that returns any other message made none and left the        *)
(* config file exactly as it was.                                          *)
OneUpsertOnSuccessNoneOtherwise ==
    [][/\ Succeeded(last') =>
            /\ last'.upserts = 1
            /\ Cardinality(EntriesNamed(config_file', last'.key)) = 1
       /\ Refused(last') =>
            /\ last'.upserts = 0
            /\ config_file' = config_file]_vars

OneUpsertOnSuccessNoneOtherwiseWitness ==
    /\ last.op = "local"
    /\ last.ret.kind = "node_error"
    /\ last.project.manifest.kind = "object"
    /\ config_file.kind = "object"
    /\ config_file.servers_kind = "nonobject"

(* C3 as stated: under remote rule 4 the entry is stored under the raw     *)
(* name itself, with command python and args -m name plus the extra args.  *)
PythonRuleStoresUnderRawName ==
    (PythonRuleApplies(tools, last) /\ Succeeded(last))
        => \E e \in EntriesNamed(config_file, last.target) :
              /\ e.command = "python"
              /\ e.args = <<DashM, last.target>> \o ExtraArgs(last)

(* C3 amended: under remote rule 4 the entry is stored under the sanitized *)
(* name (the segment after the scope for a name that starts with "@" and   *)
(* has a "/", every character outside [A-Za-z0-9_-] replaced by "-"), with *)
(* command python and args -m name plus the extra args.                    *)
PythonRuleStoresUnderSanitizedName ==
    (PythonRuleApplies(tools, last) /\ Succeeded(last))
        => LET raw == IF StartsWith(last.target, "@") /\ Contains(last.target, "/")
                      THEN Split(last.target, "/")[2]
                      ELSE last.target
           IN  /\ IsSanitizedFormOf(last.key, raw)
               /\ \E e \in EntriesNamed(config_file, last.key) :
                     /\ e.command = "python"
                     /\ e.args = <<DashM, last.target>> \o ExtraArgs(last)

PythonRuleWitness ==
    /\ PythonRuleApplies(tools, last)
    /\ Succeeded(last)
    /\ last.target = <<"a", ".", "a">>
    /\ last.args.given
    /\ \E e \in EntriesNamed(config_file, <<"a", "-", "a">>) : e.command = "python"

(* C4: the entry an install writes has env either absent or a non-empty    *)
(* object of the well-formed KEY=VALUE pairs split at the first "=", and   *)
(* absent when the input is absent, empty or has no well-formed pair.      *)
WellFormed(env) == {i \in 1..Len(env.list) : Contains(env.list[i], "=")}

EnvIsAbsentOrObject ==
    Succeeded(last)
        => \A e \in EntriesNamed(config_file, last.key) :
              /\ e.env.kind \in {"absent", "object"}
              /\ e.env.kind = "object" =>
                    /\ e.env.pairs # {}
                    /\ \A pr \in e.env.pairs : \E i \in WellFormed(last.env) :
                          last.env.list[i] = pr.key \o <<"=">> \o pr.value
                    /\ \A pr \in e.env.pairs : ~Contains(pr.key, "=")
              /\ WellFormed(last.env) = {} <=> e.env.kind = "absent"

(* C5: with the directory of the config file missing, an install that      *)
(* resolves to a descriptor succeeds, creates the directory and the file,  *)
(* and leaves a document that holds the new entry.                         *)
InstallCreatesMissingDirectory ==
    [][(~config_dir /\ last'.op = "repo" /\ RepoResolves(tools))
        => /\ Succeeded(last')
           /\ config_dir'
           /\ config_file'.kind = "object"
           /\ EntriesNamed(config_file', last'.key) # {}]_vars

(* C6: every key of mcpServers consists of characters of [A-Za-z0-9_-].    *)
KeysAreSanitized ==
    \A e \in config_file.servers : \A i \in 1..Len(e.name) : e.name[i] \in AllowedChars

KeysAreSanitizedWitness ==
    /\ Succeeded(last)
    /\ last.target = <<"@", "/", ".">>
    /\ last.args.given
    /\ config_file.servers = {e \in config_file.servers : e.name = <<"-">>}

(* C7: a non-empty raw name never gives an empty key.                      *)
KeyIsNeverEmpty ==
    (Succeeded(last) /\ last.target # <<>>)
        => /\ last.key # <<>>
           /\ EntriesNamed(config_file, <<>>) = {}

(* C8: the same install issued twice in a row leaves the config file after *)
(* the second call equal to the file after the first.                      *)
UpsertIsIdempotent ==
    [][(last.op # "none" /\ last'.repeated)
        => /\ config_file' = config_file
           /\ last'.ret = last.ret]_vars

UpsertIsIdempotentWitness ==
    /\ last.repeated
    /\ Succeeded(last)
    /\ last.args.given
    /\ last.key = <<"a">>
    /\ EntriesNamed(config_file, <<"b">>) # {}

(* C9: a config file that is absent or is not JSON reads as the empty      *)
(* document, and an install that follows succeeds and leaves a document    *)
(* whose only content is mcpServers with exactly the new entry.            *)
MissingOrCorruptIsEmpty ==
    [][(config_file.kind \in {"absent", "invalid"} /\ last'.op = "repo" /\ RepoResolves(tools))
        => /\ ReadConfig(config_file) = [raised |-> FALSE, doc |-> EmptyDocument]
           /\ Succeeded(last')
           /\ config_file'.kind = "object"
           /\ config_file'.others = {}
           /\ config_file'.servers_kind = "object"
           /\ Cardinality(config_file'.servers) = 1
           /\ EntriesNamed(config_file', last'.key) = config_file'.servers]_vars

(* C10: the name a success message puts between quotes is the key under    *)
(* which the entry was stored.                                             *)
MessageQuotesTheKey ==
    Succeeded(last)
        => /\ last.ret.quoted = last.key
           /\ EntriesNamed(config_file, last.ret.quoted) # {}

====
